---- MODULE Spec2Model ----
(***************************************************************************)
(* Contact-Ticket Bridge of XMPPClient (src/src/xmpp_client.py).           *)
(*                                                                         *)
(* The model has the threads the class creates: the receive ("process")    *)
(* threads started by connect(), one monitor thread per ticket started by  *)
(* _send_to_api, and the front-end thread calling connect()/disconnect().  *)
(* Python statements of different threads interleave; a thread's position  *)
(* is kept in its pc field.  Addresses and message bodies are sequences of *)
(* one-character strings so that split('/'), replace('@', '_at_'),         *)
(* lower() and the substring test are computed, not assumed.               *)
(***************************************************************************)
EXTENDS Integers, Sequences, FiniteSets, TLC

(* ------------------------------ bounds -------------------------------- *)
\* monitor specification (Spec)
MaxInbound == 1   \* inbound stanzas delivered by the transport
MaxMsgs    == 2   \* messages the backend adds to the tickets
\* handler race specification (SpecRace)
RaceInbound == 2
\* two-contact specification (SpecPair)
PairInbound == 2
\* log store specification (SpecLog)
LogCalls    == 1   \* calls of _log_message by one thread
MaxDay      == 2   \* days the run spans
MaxExisting == 1   \* segments of the first day left by an earlier run
\* log store specification with restarts (SpecLogSeq)
SeqCalls    == 2   \* calls of _log_message by the one thread
\* skipped-message specification (SpecSkip)
SkipMsgs     == 2  \* messages the backend adds
\* long-ticket specification (SpecPage)
PageMsgs     == 21 \* messages the backend adds, one more than a page holds
\* front-end specification (SpecFront)
FrontInbound == 2  \* stanzas the transport delivers
FrontCalls   == 2  \* calls the front end makes

(* ------------------------ thread populations -------------------------- *)
\* Spec follows one contact's ticket: one receive thread at a time (a new
\* one after each reconnect) and the monitor of the ticket.  SpecRace has
\* the receive thread of an earlier connection still running next to the
\* new one, and a monitor for each.  SpecPair has one receive thread and
\* a monitor for each of two contacts.  SpecLog has two threads inside
\* _log_message; SpecLogSeq has one, and the process may be restarted.
ProcIds      == {1}
MonIds       == {1}
RaceProcIds  == {1, 2}
RaceMonIds   == {1, 2}
LogWriterIds == {1, 2}
SeqWriterIds == {1}

(* ------------------------- program constants -------------------------- *)
max_errors    == 5
poll_interval == 3
page_limit    == 20

(* ------------------------------ strings ------------------------------- *)
\* the account the client logs in as (self.jid) and the one remote contact
OwnJid   == <<"m", "e", "@", "x">>
AliceJid == <<"a", "@", "x", "/", "p">>
Senders  == {AliceJid}
\* a second contact, whose resource has a separator of its own
BobJid   == <<"b", "@", "x", "/", "p", "/", "q">>

BodyHi      == <<"H", "i">>
BodyClosing == <<"C", "l", "o", "s", "i", "n", "g", " ", "t", "i", "c", "k", "e", "t">>
BodyEmpty   == <<>>
\* a body of two lines
BodyTwoLines == <<"a", "\n", "b">>

ClosingPhrase == <<"c", "l", "o", "s", "i", "n", "g", " ", "t", "i", "c", "k", "e", "t">>

\* index of the first occurrence of character c in s, 0 when absent
RECURSIVE IndexOfFrom(_, _, _)
IndexOfFrom(s, c, i) ==
    IF i > Len(s) THEN 0
    ELSE IF s[i] = c THEN i
    ELSE IndexOfFrom(s, c, i + 1)

SplitAtLast(s, c) ==
    LET I == {i \in 1..Len(s) : s[i] = c}
    IN  IF I = {} THEN s
        ELSE SubSeq(s, 1, (CHOOSE i \in I : \A j \in I : j <= i) - 1)

\* s.split(c)[0]
SplitFirst(s, c) ==
    LET i == IndexOfFrom(s, c, 1)
    IN  IF i = 0 THEN s ELSE SubSeq(s, 1, i - 1)

\* s.replace('@', '_at_')
RECURSIVE ReplaceAt(_)
ReplaceAt(s) ==
    IF s = <<>> THEN <<>>
    ELSE (IF Head(s) = "@" THEN <<"_", "a", "t", "_">> ELSE <<Head(s)>>)
         \o ReplaceAt(Tail(s))

\* the letters str.lower() changes, among the letters the bodies use
LowerChar(c) ==
    CASE c = "C" -> "c"
      [] c = "T" -> "t"
      [] c = "H" -> "h"
      [] OTHER   -> c

Lower(s) == [i \in 1..Len(s) |-> LowerChar(s[i])]

\* needle in hay
Contains(hay, needle) ==
    \E i \in 1..(Len(hay) - Len(needle) + 1) :
        SubSeq(hay, i, i + Len(needle) - 1) = needle

\* 'closing ticket' in body.lower()
HasClosingPhrase(body) == Contains(Lower(body), ClosingPhrase)

\* sender.split('/')[0]
BareJid(full) == SplitFirst(full, "/")

\* conversation_with.replace('@', '_at_')
PersonFolder(bare) == ReplaceAt(bare)

\* self.jid.split('/')[0].split('@')[0]
CurrentUsername == SplitFirst(SplitFirst(OwnJid, "/"), "@")

\* counter_key = f"{current_username}/{person_folder}"
CounterKey(folder) == CurrentUsername \o <<"/">> \o folder

(* ------------------------------- state -------------------------------- *)
VARIABLES
    connection,          \* self.connection: "none" or "up"
    stop_event,          \* self.stop_event.is_set()
    proc,                \* receive threads: pc and the stanza being handled
    user_tickets,        \* self.user_tickets: bare jid -> ticket record
    polling_threads,     \* self.polling_threads: bare jid -> monitor thread
    mon,                 \* monitor threads: pc and locals
    discovered_contacts, \* self.discovered_contacts
    message_queue,       \* self.message_queue
    log_counters,        \* self.log_counters: counter_key -> date -> counter
    log_files,           \* files under log_dir: <<folder, date, counter>> -> lines
    disk_ok,             \* whether open()/write() of a log file succeeds
    today,               \* datetime.now() date, as a day number
    writer,              \* threads inside _log_message (log specification)
    ticket_msgs,         \* backend: ticket id -> messages of the ticket
    sent,                \* chat messages handed to the transport
    inbound,             \* senders of the stanzas the transport has still to
                         \* deliver, in order
    to_add,              \* messages the backend has still to add
    hist,                \* history of monitor polls and relays (observer)
    roster,              \* self.connection.Roster as the server holds it
    front                \* the front-end thread: the call it is in, what its
                         \* calls returned, the calls it has still to make

vars == <<connection, stop_event, proc, user_tickets, polling_threads, mon,
          discovered_contacts, message_queue, log_counters, log_files,
          disk_ok, today, writer, ticket_msgs, sent, inbound, to_add, hist,
          roster, front>>

(* --------------------------- generic helpers -------------------------- *)
SetMax(S) == CHOOSE x \in S : \A y \in S : y <= x

PopAll(f, k) == <<>>

\* dict.pop(k, None)
Pop(f, k) == [x \in DOMAIN f \ {k} |-> f[x]]

\* dict[k] = v
Put(f, k, v) == [x \in DOMAIN f \cup {k} |-> IF x = k THEN v ELSE f[x]]

(* ----------------------- Conversation Log Store ----------------------- *)
\* speaker label written for a msg_type (lines 843-848)
SpeakerLabel(msg_type, sender) ==
    IF msg_type = "received" THEN sender
    ELSE IF msg_type = "ai_sent" THEN <<"A", "I", " ", "B", "o", "t">>
    ELSE <<"M", "e">>

\* lines 788-791: the conversation partner
ConversationWith(sender, recipient, msg_type) ==
    IF msg_type = "received" THEN SplitFirst(sender, "/")
    ELSE SplitFirst(recipient, "/")

ScanCounterNext(files, folder, date) ==
    LET cs == {k[3] : k \in {f \in DOMAIN files : f[1] = folder /\ f[2] = date}}
    IN  IF cs = {} THEN 1 ELSE SetMax(cs) + 1

\* lines 819-833: highest counter among the files of the date, 1 when none
ScanCounter(files, folder, date) ==
    LET cs == {k[3] : k \in {f \in DOMAIN files : f[1] = folder /\ f[2] = date}}
    IN  IF cs = {} THEN 1 ELSE SetMax(cs)

\* lines 812-833: log_counters after the counter for (key, date) is settled
ResolveCounter(counters, files, folder, date) ==
    LET key == CounterKey(folder)
        c1  == IF key \in DOMAIN counters THEN counters
               ELSE Put(counters, key, <<>>)
    IN  IF date \in DOMAIN c1[key] THEN c1
        ELSE Put(c1, key, Put(c1[key], date, ScanCounter(files, folder, date)))

\* lines 842-848: the file after one line is appended (created when absent)
AppendLine(files, folder, date, counter, line) ==
    LET k == <<folder, date, counter>>
    IN  Put(files, k, (IF k \in DOMAIN files THEN files[k] ELSE <<>>) \o <<line>>)

\* strftime('%Y-%m-%d %H:%M:%S') of line 839; day d is the d-th of a month,
\* the time of day is not followed
Digit(n) == <<"0", "1", "2", "3", "4", "5", "6", "7", "8", "9">>[n + 1]

Timestamp(d) ==
    <<"2", "0", "2", "4", "-", "0", "1", "-", Digit(d \div 10), Digit(d % 10),
      " ", "0", "0", ":", "0", "0", ":", "0", "0">>

\* the text of one f.write, lines 843-848
FormatLine(line) ==
    <<"(">> \o Timestamp(line.date) \o <<")", " ">> \o line.label
    \o <<":", " ">> \o line.body \o <<"\n">>

\* the text of a file after the writes appended to it
RECURSIVE FileText(_)
FileText(lines) ==
    IF lines = <<>> THEN <<>>
    ELSE FormatLine(Head(lines)) \o FileText(Tail(lines))

RotatesAnySpeaker(msg_type, body) == HasClosingPhrase(body)

\* line 852: a sent line with the closing phrase rotates the log
Rotates(msg_type, body) ==
    msg_type \in {"sent", "ai_sent"} /\ HasClosingPhrase(body)

\* lines 852-853
BumpCounter(counters, folder, date) ==
    LET key == CounterKey(folder)
    IN  Put(counters, key, Put(counters[key], date, counters[key][date] + 1))

WriteStepBumps(counters, files, ok, sender, recipient, body, msg_type, date, counter) ==
    LET folder == PersonFolder(ConversationWith(sender, recipient, msg_type))
        line   == [date |-> date, label |-> SpeakerLabel(msg_type, sender),
                   body |-> body]
        bumped == IF Rotates(msg_type, body)
                  THEN BumpCounter(counters, folder, date) ELSE counters
    IN  IF ~ok THEN [counters |-> bumped, files |-> files]
        ELSE [files    |-> AppendLine(files, folder, date, counter, line),
              counters |-> bumped]

\* lines 835-853 for a thread that settled on (date, counter): the write and
\* the rotation; an open()/write() failure is swallowed at lines 856-857
WriteStep(counters, files, ok, sender, recipient, body, msg_type, date, counter) ==
    LET folder == PersonFolder(ConversationWith(sender, recipient, msg_type))
        line   == [date |-> date, label |-> SpeakerLabel(msg_type, sender),
                   body |-> body]
    IN  IF ~ok THEN [counters |-> counters, files |-> files]
        ELSE [files    |-> AppendLine(files, folder, date, counter, line),
              counters |-> IF Rotates(msg_type, body)
                           THEN BumpCounter(counters, folder, date)
                           ELSE counters]

\* _log_message run without interruption (lines 784-857)
LogMessage(counters, files, ok, sender, recipient, body, msg_type, date) ==
    LET folder == PersonFolder(ConversationWith(sender, recipient, msg_type))
        c1     == ResolveCounter(counters, files, folder, date)
    IN  WriteStep(c1, files, ok, sender, recipient, body, msg_type, date,
                  c1[CounterKey(folder)][date])

(* ------------------------------ backend ------------------------------- *)
TicketIds == {1}
NoTicket  == 0

\* a ticket the backend opens for a contact that already had one
LaterTicket    == 2
BackendTickets == TicketIds \cup {LaterTicket}

TerminalStatus == {"RESOLVED", "CLOSED"}

\* messages the backend may add to a ticket
AgentReply    == [is_customer |-> FALSE, content |-> BodyHi,
                  ticket_status |-> "OPEN"]
AgentClosing  == [is_customer |-> FALSE, content |-> BodyClosing,
                  ticket_status |-> "RESOLVED"]
CustomerEcho  == [is_customer |-> TRUE, content |-> BodyHi,
                  ticket_status |-> "OPEN"]
BackendMsgs   == {AgentReply, AgentClosing, CustomerEcho}

(* ------------------------------ threads ------------------------------- *)
Procs == DOMAIN proc
Mons  == DOMAIN mon

\* a receive thread; pc "unborn" when the thread does not exist.
\* expect (observer): the last acknowledgement named a ticket while no ticket
\* was tracked for the sender or no monitor thread of the sender was alive
\* response (observer): how the last backend call of the thread ended
\* acked (observer): the ticket id the last acknowledgement named
IdleProc == [pc |-> "unborn", sender |-> <<>>, body |-> <<>>,
             ticket_id |-> NoTicket, poll_thread |-> 0, expect |-> FALSE,
             response |-> "", acked |-> NoTicket]

IdleMon == [pc |-> "unborn", jid |-> <<>>, ticket_id |-> NoTicket,
            errors |-> 0, new_messages |-> <<>>, sleep |-> 0]

IdleHist == [reason |-> "", anyOk |-> FALSE, reqrun |-> 0, failrun |-> 0,
             errrun |-> 0, got404 |-> FALSE, reqAfter404 |-> FALSE,
             relayed |-> <<>>, seen |-> 0, base |-> 0, sawTerminal |-> FALSE]

\* threading.Thread.is_alive()
IsAlive(m) == mon[m].pc \notin {"unborn", "dead"}

\* a monitor that is still in its polling loop
IsPolling(m) == mon[m].pc \in {"loop", "fetch", "relay", "sleep"}

\* the roster of the account: whether connection.Roster can be read (lines
\* 314-334 swallow its failure) and the contacts it lists
NoRoster == [ok |-> TRUE, items |-> {}]

\* the front-end thread outside any call. messages: the local list of
\* get_messages; returned: what each get_messages call returned, in order;
\* contacts: what the last get_roster returned; error: what the last
\* send_message raised; last: the call made last; calls: the calls the
\* thread has still to make; status: how the backend answered the last
\* send_ticket_response; result: what that call returned
IdleFront == [pc |-> "idle", messages |-> <<>>, returned |-> <<>>,
              contacts |-> {}, error |-> "", last |-> "", calls |-> 0,
              status |-> "", result |-> FALSE]

\* __init__, lines 17-38, with the threads and the input still to come
InitWith(procs, mons, stanzas, nmsgs, disk) ==
    /\ connection = "none"
    /\ stop_event = FALSE
    /\ proc = [p \in procs |-> IdleProc]
    /\ user_tickets = <<>>
    /\ polling_threads = <<>>
    /\ mon = [m \in mons |-> IdleMon]
    /\ discovered_contacts = {}
    /\ message_queue = <<>>
    /\ log_counters = <<>>
    /\ log_files = <<>>
    /\ disk_ok \in disk
    /\ today = 1
    /\ writer = <<>>
    /\ ticket_msgs = [t \in BackendTickets |-> <<>>]
    /\ sent = <<>>
    /\ inbound \in stanzas
    /\ to_add = nmsgs
    /\ hist = [m \in mons |-> IdleHist]
    /\ roster = NoRoster
    /\ front = IdleFront

\* the log directory is writable for the whole run, or not at all
Init == InitWith(ProcIds, MonIds, [1..MaxInbound -> Senders],
                 MaxMsgs, BOOLEAN)

InitRace == InitWith(RaceProcIds, RaceMonIds, [1..RaceInbound -> Senders],
                     0, {TRUE})

\* two contacts write in turn
PairStanzas == [i \in 1..PairInbound |->
                    IF i % 2 = 1 THEN AliceJid ELSE BobJid]

InitPair == InitWith(ProcIds, RaceMonIds, {PairStanzas}, 0, {TRUE})

(* ----------------------- connect / disconnect ------------------------- *)
\* connect(), lines 40-85: a new connection, the flag cleared, a new thread
\* (a thread of an earlier connection may still be running)
Connect ==
    /\ connection = "none"
    /\ \E p \in Procs :
        /\ proc[p].pc = "unborn"
        /\ \A q \in Procs : q < p => proc[q].pc # "unborn"
        /\ proc' = [proc EXCEPT ![p].pc = "loop"]
    /\ connection' = "up"
    /\ stop_event' = FALSE
    /\ UNCHANGED <<user_tickets, polling_threads, mon, discovered_contacts,
                   message_queue, log_counters, log_files, disk_ok, today,
                   writer, ticket_msgs, sent, inbound, to_add, hist,
                   roster, front>>

\* disconnect(), lines 87-94: join(timeout=1) gives up on a thread that is
\* still inside a handler or a monitor that is still inside an iteration
Disconnect ==
    /\ connection # "none"
    /\ stop_event' = TRUE
    /\ connection' = "none"
    /\ UNCHANGED <<proc, user_tickets, polling_threads, mon,
                   discovered_contacts, message_queue, log_counters,
                   log_files, disk_ok, today, writer, ticket_msgs, sent,
                   inbound, to_add, hist,
                   roster, front>>

\* _process_loop, line 432: the loop ends once the flag is seen, and the
\* thread is gone
ProcessLoopExit(p) ==
    /\ proc[p].pc = "loop"
    /\ stop_event
    /\ proc' = [proc EXCEPT ![p] = IdleProc]
    /\ UNCHANGED <<connection, stop_event, user_tickets, polling_threads, mon,
                   discovered_contacts, message_queue, log_counters,
                   log_files, disk_ok, today, writer, ticket_msgs, sent,
                   inbound, to_add, hist,
                   roster, front>>

(* --------------------------- Message Bridge --------------------------- *)
\* _convert_markdown_links, lines 764-782: re.sub of \[([^\]]+)\]\(([^\)]+)\)
RECURSIVE ConvertFrom(_, _)
ConvertFrom(s, i) ==
    IF i > Len(s) THEN <<>>
    ELSE
      LET j == IF s[i] = "[" THEN IndexOfFrom(s, "]", i + 1) ELSE 0
          k == IF j > i + 1 /\ j + 1 <= Len(s) /\ s[j + 1] = "("
               THEN IndexOfFrom(s, ")", j + 2) ELSE 0
      IN  IF k > j + 2 /\ j > 0
          THEN LET link_text == SubSeq(s, i + 1, j - 1)
                   link_url  == SubSeq(s, j + 2, k - 1)
               IN  (IF link_text = link_url THEN link_url
                    ELSE link_text \o <<":", " ">> \o link_url)
                   \o ConvertFrom(s, k + 1)
          ELSE <<s[i]>> \o ConvertFrom(s, i + 1)

ConvertMarkdownLinks(text) == ConvertFrom(text, 1)

\* the stanzas the transport delivers
InboundBodies == {BodyEmpty, BodyHi}

EnqueueDropped(q, sender, body) == q

\* message_queue.put(...), lines 404-409
Enqueue(q, sender, body) ==
    Append(q, [from |-> sender, body |-> body, type |-> "chat"])

SkippedNever(body) == FALSE

\* lines 385-386: a stanza without a body is a protocol message
Skipped(body) == body = <<>>

\* _message_handler up to the backend call being in flight, lines 378-401
\* and 499-537: skip an empty body, record the contact, log the message
Receive(p) ==
    /\ proc[p].pc = "loop"
    /\ ~stop_event
    /\ connection = "up"
    /\ inbound # <<>>
    /\ inbound' = Tail(inbound)
    /\ \E sender \in {Head(inbound)}, body \in InboundBodies :
        IF Skipped(body)
        THEN /\ proc' = [proc EXCEPT ![p].expect = FALSE,
                                     ![p].response = "",
                                     ![p].acked = NoTicket]
             /\ UNCHANGED <<discovered_contacts, log_counters, log_files>>
        ELSE
          LET bare_jid == BareJid(sender)
              logged   == LogMessage(log_counters, log_files, disk_ok, sender,
                                     OwnJid, body, "received", today)
          IN  /\ discovered_contacts' =
                    IF bare_jid # <<>> /\ IndexOfFrom(bare_jid, "@", 1) # 0
                    THEN discovered_contacts \cup {bare_jid}
                    ELSE discovered_contacts
              /\ log_counters' = logged.counters
              /\ log_files' = logged.files
              /\ proc' = [proc EXCEPT ![p].pc = "post", ![p].sender = sender,
                                      ![p].body = body, ![p].expect = FALSE,
                                      ![p].response = "",
                                      ![p].acked = NoTicket]
    /\ UNCHANGED <<connection, stop_event, user_tickets, polling_threads, mon,
                   message_queue, disk_ok, today, writer, ticket_msgs, sent,
                   to_add, hist,
                   roster, front>>

\* the monitor check of line 560
NotMonitored(bare_jid) ==
    \/ bare_jid \notin DOMAIN polling_threads
    \/ ~IsAlive(polling_threads[bare_jid])

\* some monitor thread of the contact is alive
HasLiveMonitor(bare_jid) == \E m \in Mons : IsAlive(m) /\ mon[m].jid = bare_jid

\* requests.post returns or raises, lines 537-560 and 577-605; when no
\* monitor is to be started the handler runs to its end (lines 404-409)
PostReturnOf(p, ids) ==
    /\ proc[p].pc = "post"
    /\ \E ok \in BOOLEAN, ticket_id \in ids \cup {NoTicket} :
        LET bare_jid == BareJid(proc[p].sender)
            expect   == /\ ok
                        /\ ticket_id # NoTicket
                        /\ \/ bare_jid \notin DOMAIN user_tickets
                           \/ ~HasLiveMonitor(bare_jid)
        IN  IF ok /\ ticket_id # NoTicket /\ NotMonitored(bare_jid)
            THEN /\ proc' = [proc EXCEPT ![p].pc = "create",
                                         ![p].ticket_id = ticket_id,
                                         ![p].expect = expect,
                                         ![p].response = "200",
                                         ![p].acked = ticket_id]
                 /\ UNCHANGED message_queue
            ELSE /\ ok \/ ticket_id = NoTicket
                 /\ proc' = [proc EXCEPT ![p] = [IdleProc EXCEPT
                                 !.pc = "loop", !.expect = expect,
                                 !.response = IF ok THEN "200"
                                              ELSE "failed",
                                 !.acked = IF ok THEN ticket_id
                                           ELSE NoTicket]]
                 /\ message_queue' = Enqueue(message_queue, proc[p].sender,
                                             proc[p].body)
    /\ UNCHANGED <<connection, stop_event, user_tickets, polling_threads, mon,
                   discovered_contacts, log_counters, log_files, disk_ok,
                   today, writer, ticket_msgs, sent, inbound, to_add, hist,
                   roster, front>>

\* the backend names the one ticket of the contact, or none
PostReturn(p) == PostReturnOf(p, TicketIds)

\* the record stored at lines 562-567
NewTicket(ticket_id, full_jid) ==
    [ticket_id |-> ticket_id, last_message_count |-> 0, status |-> "OPEN",
     full_jid |-> full_jid]

\* lines 562-575: store the ticket and start the monitor thread
StartMonitor(p) ==
    /\ proc[p].pc = "create"
    /\ \E m \in Mons :
        /\ mon[m].pc = "unborn"
        /\ \A n \in Mons : n < m => mon[n].pc # "unborn"
        /\ mon' = [mon EXCEPT ![m] = [IdleMon EXCEPT
                        !.pc = "loop", !.jid = BareJid(proc[p].sender)]]
        /\ proc' = [proc EXCEPT ![p].pc = "register", ![p].poll_thread = m]
    /\ user_tickets' = Put(user_tickets, BareJid(proc[p].sender),
                           NewTicket(proc[p].ticket_id, proc[p].sender))
    /\ UNCHANGED <<connection, stop_event, polling_threads,
                   discovered_contacts, message_queue, log_counters,
                   log_files, disk_ok, today, writer, ticket_msgs, sent,
                   inbound, to_add, hist,
                   roster, front>>

\* line 576 and the rest of the handler (lines 404-409)
RegisterMonitor(p) ==
    /\ proc[p].pc = "register"
    /\ polling_threads' = Put(polling_threads, BareJid(proc[p].sender),
                              proc[p].poll_thread)
    /\ message_queue' = Enqueue(message_queue, proc[p].sender, proc[p].body)
    /\ proc' = [proc EXCEPT ![p] = [IdleProc EXCEPT
                    !.pc = "loop", !.expect = proc[p].expect,
                    !.response = proc[p].response,
                    !.acked = proc[p].acked]]
    /\ UNCHANGED <<connection, stop_event, user_tickets, mon,
                   discovered_contacts, log_counters, log_files, disk_ok,
                   today, writer, ticket_msgs, sent, inbound, to_add, hist,
                   roster, front>>

(* --------------------------- Ticket Monitor --------------------------- *)
\* a body with a markdown link, and the bodies the front end sends
BodyLink   == <<"[", "t", "]", "(", "u", ")">>
FrontBodies == {BodyLink, BodyClosing}

SendMessageLogsFirst(conn, transport_ok, counters, files, ok, out, to_jid, body, from_ai, date) ==
    LET converted == ConvertMarkdownLinks(body)
        msg_type  == IF from_ai THEN "ai_sent" ELSE "sent"
        logged    == LogMessage(counters, files, ok, OwnJid, to_jid,
                                converted, msg_type, date)
    IN  IF conn = "none"
        THEN [raised |-> "ConnectionError", sent |-> out,
              counters |-> counters, files |-> files]
        ELSE IF ~transport_ok
        THEN [raised |-> "send", sent |-> out,
              counters |-> logged.counters, files |-> logged.files]
        ELSE [raised |-> "",
              sent |-> Append(out, [to |-> to_jid, body |-> converted]),
              counters |-> logged.counters, files |-> logged.files]

\* send_message, lines 96-115: what it raises, and the transport's output
\* and the log after it
SendMessage(conn, transport_ok, counters, files, ok, out, to_jid, body, from_ai, date) ==
    LET converted == ConvertMarkdownLinks(body)
        msg_type  == IF from_ai THEN "ai_sent" ELSE "sent"
        logged    == LogMessage(counters, files, ok, OwnJid, to_jid,
                                converted, msg_type, date)
    IN  IF conn = "none"
        THEN [raised |-> "ConnectionError", sent |-> out,
              counters |-> counters, files |-> files]
        ELSE IF ~transport_ok
        THEN [raised |-> "send", sent |-> out,
              counters |-> counters, files |-> files]
        ELSE [raised |-> "",
              sent |-> Append(out, [to |-> to_jid, body |-> converted]),
              counters |-> logged.counters, files |-> logged.files]

Min(a, b) == IF a < b THEN a ELSE b

LeaveLater(m) == [mon EXCEPT ![m].pc = "sleep"]

\* the monitor leaves its loop (break, or the loop condition fails)
Leave(m) == [mon EXCEPT ![m].pc = "exit", ![m].new_messages = <<>>]

\* top of an iteration, lines 613-632: the flag, the cached ticket, its
\* status; then the request for the ticket's messages is issued
MonitorLoop(m) ==
    /\ mon[m].pc = "loop"
    /\ LET jid == mon[m].jid IN
        IF stop_event
        THEN /\ mon' = Leave(m)
             /\ hist' = [hist EXCEPT ![m].reason = "shutdown"]
             /\ UNCHANGED user_tickets
        ELSE IF jid \notin DOMAIN user_tickets
        THEN /\ mon' = Leave(m)
             /\ hist' = [hist EXCEPT ![m].reason = "no-ticket"]
             /\ UNCHANGED user_tickets
        ELSE IF user_tickets[jid].status \in TerminalStatus
        THEN /\ mon' = Leave(m)
             /\ hist' = [hist EXCEPT ![m].reason = "resolved"]
             /\ user_tickets' = Pop(user_tickets, jid)
        ELSE /\ mon' = [mon EXCEPT ![m].pc = "fetch",
                            ![m].ticket_id = user_tickets[jid].ticket_id]
             /\ hist' = [hist EXCEPT
                            ![m].reqrun = Min(@ + 1, max_errors + 1),
                            ![m].reqAfter404 = hist[m].got404]
             /\ UNCHANGED user_tickets
    /\ UNCHANGED <<connection, stop_event, proc, polling_threads,
                   discovered_contacts, message_queue, log_counters,
                   log_files, disk_ok, today, writer, ticket_msgs, sent,
                   inbound, to_add,
                   roster, front>>

ExhaustedLate(n) == n > max_errors

\* lines 637 and 667: consecutive_errors >= max_errors
Exhausted(n) == n >= max_errors

\* lines 636-640 and 666-671: one more consecutive error; at max_errors the
\* ticket is dropped and the monitor stops, otherwise it sleeps
CountError(m, backoff) ==
    LET n == mon[m].errors + 1
    IN  IF Exhausted(n)
        THEN [mon EXCEPT ![m].errors = n, ![m].pc = "exit",
                         ![m].new_messages = <<>>]
        ELSE [mon EXCEPT ![m].errors = n, ![m].pc = "sleep",
                         ![m].new_messages = <<>>, ![m].sleep = backoff]

TicketsAfterError(m) ==
    IF Exhausted(mon[m].errors + 1) THEN Pop(user_tickets, mon[m].jid)
    ELSE user_tickets

ReasonAfterError(m) ==
    IF Exhausted(mon[m].errors + 1) THEN "error-exhausted"
    ELSE hist[m].reason

GotMessagesNoReset(m, delta) ==
    [mon EXCEPT ![m].new_messages = delta,
                ![m].sleep = IF delta = <<>> THEN poll_interval
                             ELSE mon[m].sleep,
                ![m].pc = IF delta = <<>> THEN "sleep" ELSE "relay"]

\* lines 641-644: a list came back; the error count starts over and the
\* delta is walked (an empty delta goes straight to the sleep of line 662)
GotMessages(m, delta) ==
    [mon EXCEPT ![m].errors = 0,
                ![m].new_messages = delta,
                ![m].sleep = IF delta = <<>> THEN poll_interval
                             ELSE mon[m].sleep,
                ![m].pc = IF delta = <<>> THEN "sleep" ELSE "relay"]

\* the messages a GET with params={'limit': 20} returns (line 734): all of
\* them up to the limit; beyond it the backend returns the first or the
\* last page_limit of them
Page(all) ==
    IF Len(all) <= page_limit THEN {all}
    ELSE {SubSeq(all, 1, page_limit),
          SubSeq(all, Len(all) - page_limit + 1, Len(all))}

\* the response arrives, lines 734-762 and 634-642
MonitorFetchWith(m, responses) ==
    /\ mon[m].pc = "fetch"
    /\ \E resp \in responses, messages \in Page(ticket_msgs[mon[m].ticket_id]) :
        LET jid      == mon[m].jid
            total    == Len(messages)
        IN  IF resp = "200" /\ jid \in DOMAIN user_tickets
            THEN LET last_count == user_tickets[jid].last_message_count
                     delta == IF total > last_count
                              THEN SubSeq(messages, last_count + 1, total)
                              ELSE <<>>
                 IN  /\ user_tickets' =
                            IF total > last_count
                            THEN [user_tickets EXCEPT
                                    ![jid].last_message_count = total]
                            ELSE user_tickets
                     /\ mon' = GotMessages(m, delta)
                     /\ hist' = [hist EXCEPT
                            ![m].anyOk = TRUE, ![m].reqrun = 0,
                            ![m].failrun = 0,
                            ![m].errrun = IF delta = <<>> THEN 0 ELSE @,
                            ![m].base = last_count + 1,
                            ![m].seen = IF total > @ THEN total ELSE @,
                            ![m].sawTerminal =
                                \E i \in 1..Len(delta) :
                                    delta[i].ticket_status \in TerminalStatus]
            ELSE /\ user_tickets' = TicketsAfterError(m)
                 /\ mon' = CountError(m, poll_interval)
                 /\ hist' = [hist EXCEPT
                        ![m].reason = ReasonAfterError(m),
                        ![m].failrun = Min(@ + 1, max_errors),
                        ![m].errrun = Min(@ + 1, max_errors),
                        ![m].got404 = @ \/ resp = "404"]
    /\ UNCHANGED <<connection, stop_event, proc, polling_threads,
                   discovered_contacts, message_queue, log_counters,
                   log_files, disk_ok, today, writer, ticket_msgs, sent,
                   inbound, to_add,
                   roster, front>>

\* the response is a list, a 404, or another failure
MonitorFetch(m) == MonitorFetchWith(m, {"200", "404", "error"})

RelayTargetFull(m) ==
    IF mon[m].jid \in DOMAIN user_tickets
    THEN user_tickets[mon[m].jid].full_jid ELSE mon[m].jid

\* line 655: the reply goes to user_jid, the key the monitor was started with
RelayTarget(m) == mon[m].jid

EligibleAny(msg) == TRUE

\* the test of line 651
Eligible(msg) == ~msg.is_customer /\ msg.content # <<>>

\* one message of the delta, lines 644-660: send_message (lines 104-115)
\* for a non-customer message with content, then the status check; an
\* exception ends the iteration in the handler of lines 664-671
MonitorRelayWith(m, transport) ==
    /\ mon[m].pc = "relay"
    /\ \E transport_ok \in transport :
       LET jid     == mon[m].jid
           msg     == Head(mon[m].new_messages)
           rest    == Tail(mon[m].new_messages)
           send    == Eligible(msg)
           to_jid  == RelayTarget(m)
           r       == IF send
                      THEN SendMessage(connection, transport_ok, log_counters,
                                       log_files, disk_ok, sent, to_jid,
                                       msg.content, TRUE, today)
                      ELSE [raised |-> "", sent |-> sent,
                            counters |-> log_counters, files |-> log_files]
           raised  == \/ r.raised # ""
                      \/ /\ msg.ticket_status \in TerminalStatus
                         /\ jid \notin DOMAIN user_tickets
       IN
        /\ sent' = r.sent
        /\ log_counters' = r.counters
        /\ log_files' = r.files
        /\ IF raised
           THEN /\ user_tickets' = TicketsAfterError(m)
                /\ mon' = CountError(m, 2 * poll_interval)
                /\ hist' = [hist EXCEPT
                        ![m].reason = ReasonAfterError(m),
                        ![m].errrun = Min(@ + 1, max_errors),
                        ![m].relayed = IF send /\ r.raised = ""
                                       THEN Append(@, hist[m].base) ELSE @]
           ELSE /\ user_tickets' =
                        IF msg.ticket_status \in TerminalStatus
                        THEN [user_tickets EXCEPT
                                ![jid].status = msg.ticket_status]
                        ELSE user_tickets
                /\ mon' = [mon EXCEPT
                        ![m].new_messages = rest,
                        ![m].sleep = IF rest = <<>> THEN poll_interval
                                     ELSE mon[m].sleep,
                        ![m].pc = IF rest = <<>> THEN "sleep" ELSE "relay"]
                /\ hist' = [hist EXCEPT
                        ![m].base = @ + 1,
                        ![m].errrun = IF rest = <<>> THEN 0 ELSE @,
                        ![m].relayed = IF send THEN Append(@, hist[m].base)
                                       ELSE @]
    /\ UNCHANGED <<connection, stop_event, proc, polling_threads,
                   discovered_contacts, message_queue, disk_ok, today,
                   writer, ticket_msgs, inbound, to_add,
                   roster, front>>

\* the transport takes every message while the connection object exists
MonitorRelay(m) == MonitorRelayWith(m, {TRUE})

\* connection.send (line 111) may also raise while the connection object
\* exists
MonitorRelayOrRefuse(m) == MonitorRelayWith(m, BOOLEAN)

\* time.sleep returns, lines 662 and 671
MonitorWake(m) ==
    /\ mon[m].pc = "sleep"
    /\ mon' = [mon EXCEPT ![m].pc = "loop"]
    /\ UNCHANGED <<connection, stop_event, proc, user_tickets,
                   polling_threads, discovered_contacts, message_queue,
                   log_counters, log_files, disk_ok, today, writer,
                   ticket_msgs, sent, inbound, to_add, hist,
                   roster, front>>

\* line 673: the thread function returns and the thread is no longer alive
MonitorExit(m) ==
    /\ mon[m].pc = "exit"
    /\ mon' = [mon EXCEPT ![m].pc = "dead"]
    /\ UNCHANGED <<connection, stop_event, proc, user_tickets,
                   polling_threads, discovered_contacts, message_queue,
                   log_counters, log_files, disk_ok, today, writer,
                   ticket_msgs, sent, inbound, to_add, hist,
                   roster, front>>

(* ---------------------------- environment ----------------------------- *)
\* an agent, the AI or the customer adds a message to a ticket
BackendAddOf(kinds) ==
    /\ \E t \in TicketIds, msg \in kinds :
        /\ to_add > 0
        /\ to_add' = to_add - 1
        /\ ticket_msgs' = [ticket_msgs EXCEPT ![t] = Append(@, msg)]
    /\ UNCHANGED <<connection, stop_event, proc, user_tickets,
                   polling_threads, mon, discovered_contacts, message_queue,
                   log_counters, log_files, disk_ok, today, writer, sent,
                   inbound, hist,
                   roster, front>>

BackendAdd == BackendAddOf(BackendMsgs)

\* the log directory stops or starts being writable
DiskToggle ==
    /\ disk_ok' = ~disk_ok
    /\ UNCHANGED <<connection, stop_event, proc, user_tickets,
                   polling_threads, mon, discovered_contacts, message_queue,
                   log_counters, log_files, today, writer, ticket_msgs, sent,
                   inbound, to_add, hist,
                   roster, front>>

(* --------------------------- specification ---------------------------- *)
\* the receive threads, the monitors, the front end and the backend
Next ==
    \/ Connect
    \/ Disconnect
    \/ \E p \in Procs : ProcessLoopExit(p)
    \/ \E p \in Procs : Receive(p)
    \/ \E p \in Procs : PostReturn(p)
    \/ \E p \in Procs : StartMonitor(p)
    \/ \E p \in Procs : RegisterMonitor(p)
    \/ \E m \in Mons : MonitorLoop(m)
    \/ \E m \in Mons : MonitorFetch(m)
    \/ \E m \in Mons : MonitorRelay(m)
    \/ \E m \in Mons : MonitorWake(m)
    \/ \E m \in Mons : MonitorExit(m)
    \/ BackendAdd

Spec == Init /\ [][Next]_vars

\* messages the monitor does not relay: one written by the customer, one
\* without content; each reports a terminal ticket status
CustomerResolved == [is_customer |-> TRUE, content |-> BodyHi,
                     ticket_status |-> "RESOLVED"]
AgentBlank       == [is_customer |-> FALSE, content |-> <<>>,
                     ticket_status |-> "CLOSED"]
SkipKinds        == {AgentReply, CustomerResolved, AgentBlank}

InitSkip == InitWith(ProcIds, MonIds, [1..MaxInbound -> Senders],
                     SkipMsgs, {TRUE})

NextSkip ==
    \/ Connect
    \/ Disconnect
    \/ \E p \in Procs : ProcessLoopExit(p)
    \/ \E p \in Procs : Receive(p)
    \/ \E p \in Procs : PostReturn(p)
    \/ \E p \in Procs : StartMonitor(p)
    \/ \E p \in Procs : RegisterMonitor(p)
    \/ \E m \in Mons : MonitorLoop(m)
    \/ \E m \in Mons : MonitorFetch(m)
    \/ \E m \in Mons : MonitorRelayOrRefuse(m)
    \/ \E m \in Mons : MonitorWake(m)
    \/ \E m \in Mons : MonitorExit(m)
    \/ BackendAddOf(SkipKinds)

\* Spec with backend messages that are not to be relayed and a transport
\* that may refuse a message
SpecSkip == InitSkip /\ [][NextSkip]_vars

\* one contact writes once; the backend acknowledges or not, answers every
\* poll with the list, and agents add replies; the connection stays up and
\* the transport takes every message
InitPage == InitWith(ProcIds, MonIds, {<<AliceJid>>}, PageMsgs, {TRUE})

\* the steps of a monitor whose polls are answered and whose sends succeed
MonitorStep(m) ==
    \/ MonitorLoop(m)
    \/ MonitorFetchWith(m, {"200"})
    \/ MonitorRelay(m)
    \/ MonitorWake(m)

NextPage ==
    \/ Connect
    \/ \E p \in Procs : Receive(p)
    \/ \E p \in Procs : PostReturn(p)
    \/ \E p \in Procs : StartMonitor(p)
    \/ \E p \in Procs : RegisterMonitor(p)
    \/ \E m \in Mons : MonitorLoop(m)
    \/ \E m \in Mons : MonitorFetchWith(m, {"200"})
    \/ \E m \in Mons : MonitorRelay(m)
    \/ \E m \in Mons : MonitorWake(m)
    \/ BackendAddOf({AgentReply})

\* a monitor thread that can run does run: the scheduler is fair to it, the
\* backend answers, time.sleep returns
SpecPage == InitPage /\ [][NextPage]_vars
            /\ \A m \in MonIds : WF_vars(MonitorStep(m))

\* overlapping handlers: more threads and stanzas, tickets without messages
NextRace ==
    \/ Connect
    \/ Disconnect
    \/ \E p \in Procs : ProcessLoopExit(p)
    \/ \E p \in Procs : Receive(p)
    \/ \E p \in Procs : PostReturn(p)
    \/ \E p \in Procs : StartMonitor(p)
    \/ \E p \in Procs : RegisterMonitor(p)
    \/ \E m \in Mons : MonitorLoop(m)
    \/ \E m \in Mons : MonitorFetch(m)
    \/ \E m \in Mons : MonitorWake(m)
    \/ \E m \in Mons : MonitorExit(m)

SpecRace == InitRace /\ [][NextRace]_vars

\* the same contact writes twice while the receive thread of an earlier
\* connection is still running: two monitors can poll the one ticket, and
\* when one of them drops it the other finds no ticket
TwinStanzas == <<AliceJid, AliceJid>>

InitTwin == InitWith(RaceProcIds, RaceMonIds, {TwinStanzas}, 0, {TRUE})

SpecTwin == InitTwin /\ [][NextRace]_vars

\* two contacts, each with a ticket and a monitor of its own; the tickets
\* have no messages
SpecPair == InitPair /\ [][NextRace]_vars

(* ------------------- log store: concurrent appends -------------------- *)
\* _log_message is entered by the receive thread (line 395), by a monitor
\* thread and by the front end (line 115); nothing serialises them, so a
\* call is two steps: settle the counter (lines 786-835), then write and
\* rotate (lines 836-857)
IdleWriter == [pc |-> "idle", calls |-> 0, sender |-> <<>>,
               recipient |-> <<>>, body |-> <<>>, msg_type |-> "",
               date_str |-> 0, counter |-> 0]

\* a line left in a segment by an earlier run of the program
OldLine == [date |-> 1, label |-> <<"M", "e">>, body |-> BodyHi]

InitLogWith(writers, calls) ==
    /\ connection = "up"
    /\ stop_event = FALSE
    /\ proc = <<>>
    /\ user_tickets = <<>>
    /\ polling_threads = <<>>
    /\ mon = <<>>
    /\ discovered_contacts = {}
    /\ message_queue = <<>>
    /\ log_counters = <<>>
    /\ \E n \in 0..MaxExisting :
          log_files = [k \in {<<PersonFolder(BareJid(AliceJid)), 1, c>> :
                                 c \in 1..n} |-> <<OldLine>>]
    /\ disk_ok = TRUE
    /\ today = 1
    /\ writer = [t \in writers |-> [IdleWriter EXCEPT !.calls = calls]]
    /\ ticket_msgs = <<>>
    /\ sent = <<>>
    /\ inbound = <<>>
    /\ to_add = 0
    /\ hist = <<>>
    /\ roster = NoRoster
    /\ front = IdleFront

InitLog == InitLogWith(LogWriterIds, LogCalls)

InitLogSeq == InitLogWith(SeqWriterIds, SeqCalls)

\* the bodies and callers of the log specification
LogBodies == {BodyHi, BodyClosing, BodyTwoLines}

\* lines 786-835: the partner, the date and the counter are settled
LogBegin(t) ==
    /\ writer[t].pc = "idle"
    /\ writer[t].calls > 0
    /\ \E msg_type \in {"received", "sent", "ai_sent"}, body \in LogBodies :
        LET sender    == IF msg_type = "received" THEN AliceJid ELSE OwnJid
            recipient == IF msg_type = "received" THEN OwnJid
                         ELSE IF msg_type = "sent" THEN AliceJid
                         ELSE BareJid(AliceJid)
            folder    == PersonFolder(ConversationWith(sender, recipient,
                                                       msg_type))
            c1        == ResolveCounter(log_counters, log_files, folder, today)
        IN  /\ log_counters' = c1
            /\ writer' = [writer EXCEPT ![t] =
                    [pc |-> "write", calls |-> writer[t].calls - 1,
                     sender |-> sender, recipient |-> recipient,
                     body |-> body, msg_type |-> msg_type,
                     date_str |-> today,
                     counter |-> c1[CounterKey(folder)][today]]]
    /\ UNCHANGED <<connection, stop_event, proc, user_tickets,
                   polling_threads, mon, discovered_contacts, message_queue,
                   log_files, disk_ok, today, ticket_msgs, sent, inbound,
                   to_add, hist,
                   roster, front>>

\* lines 836-857: the line is written and the counter rotated
LogWrite(t) ==
    /\ writer[t].pc = "write"
    /\ LET w      == writer[t]
           logged == WriteStep(log_counters, log_files, disk_ok, w.sender,
                               w.recipient, w.body, w.msg_type, w.date_str,
                               w.counter)
       IN  /\ log_counters' = logged.counters
           /\ log_files' = logged.files
    /\ writer' = [writer EXCEPT ![t].pc = "idle"]
    /\ UNCHANGED <<connection, stop_event, proc, user_tickets,
                   polling_threads, mon, discovered_contacts, message_queue,
                   disk_ok, today, ticket_msgs, sent, inbound, to_add, hist,
                   roster, front>>

\* midnight passes
DayTick ==
    /\ today < MaxDay
    /\ today' = today + 1
    /\ UNCHANGED <<connection, stop_event, proc, user_tickets,
                   polling_threads, mon, discovered_contacts, message_queue,
                   log_counters, log_files, disk_ok, writer, ticket_msgs,
                   sent, inbound, to_add, hist,
                   roster, front>>

NextLog ==
    \/ \E t \in DOMAIN writer : LogBegin(t)
    \/ \E t \in DOMAIN writer : LogWrite(t)
    \/ DayTick
    \/ DiskToggle

SpecLog == InitLog /\ [][NextLog]_vars

\* the process ends while no append is under way and is started again:
\* __init__ (line 35) starts with no counters, the files stay
Restart ==
    /\ log_counters # <<>>
    /\ \A t \in DOMAIN writer : writer[t].pc = "idle"
    /\ log_counters' = <<>>
    /\ UNCHANGED <<connection, stop_event, proc, user_tickets,
                   polling_threads, mon, discovered_contacts, message_queue,
                   log_files, disk_ok, today, writer, ticket_msgs, sent,
                   inbound, to_add, hist,
                   roster, front>>

\* one thread appends; days pass, the disk fails, the process restarts
NextLogSeq ==
    \/ \E t \in DOMAIN writer : LogBegin(t)
    \/ \E t \in DOMAIN writer : LogWrite(t)
    \/ DayTick
    \/ DiskToggle
    \/ Restart

SpecLogSeq == InitLogSeq /\ [][NextLogSeq]_vars

\* the full text of a segment, as the front end reads it
\* (src/streamlit_app.py, lines 276-278)
ReadSegment(files, k) == FileText(files[k])

(* ------------------------------ front end ----------------------------- *)
\* the front end calls get_messages, get_roster and send_message from a
\* thread of its own while the receive thread handles stanzas
CarolJid == <<"c", "@", "x">>

\* body of a presence event, line 424, for a presence without type or status
PresenceBody ==
    <<"[", "P", "r", "e", "s", "e", "n", "c", "e", ":", " ", "a", "v", "a",
      "i", "l", "a", "b", "l", "e", "]", " ">>

\* _presence_handler, lines 411-427
Presence(p) ==
    /\ proc[p].pc = "loop"
    /\ ~stop_event
    /\ connection = "up"
    /\ inbound # <<>>
    /\ inbound' = Tail(inbound)
    /\ LET sender   == Head(inbound)
           bare_jid == SplitFirst(sender, "/")
       IN  /\ discovered_contacts' =
                 IF /\ bare_jid # <<>>
                    /\ IndexOfFrom(bare_jid, "@", 1) # 0
                    /\ bare_jid # OwnJid
                 THEN discovered_contacts \cup {bare_jid}
                 ELSE discovered_contacts
           /\ message_queue' = Append(message_queue,
                                      [from |-> sender, body |-> PresenceBody,
                                       type |-> "presence"])
    /\ UNCHANGED <<connection, stop_event, proc, user_tickets,
                   polling_threads, mon, log_counters, log_files, disk_ok,
                   today, writer, ticket_msgs, sent, to_add, hist, roster,
                   front>>

DrainedAll(q) == <<>>

\* the queue after get_nowait() took its head, line 291
Drained(q) == Tail(q)

\* get_messages is entered, lines 286-288
GetMessagesBegin ==
    /\ front.pc = "idle"
    /\ front.calls > 0
    /\ front' = [front EXCEPT !.pc = "drain", !.messages = <<>>,
                              !.calls = @ - 1, !.last = "get_messages"]
    /\ UNCHANGED <<connection, stop_event, proc, user_tickets,
                   polling_threads, mon, discovered_contacts, message_queue,
                   log_counters, log_files, disk_ok, today, writer,
                   ticket_msgs, sent, inbound, to_add, hist, roster>>

\* one turn of the loop of lines 289-294: the queue is empty and the list is
\* returned, or its head is moved to the list
GetMessagesStep ==
    /\ front.pc = "drain"
    /\ IF message_queue = <<>>
       THEN /\ front' = [front EXCEPT !.pc = "idle", !.messages = <<>>,
                                      !.returned = Append(@, front.messages)]
            /\ UNCHANGED message_queue
       ELSE /\ front' = [front EXCEPT
                            !.messages = Append(@, Head(message_queue))]
            /\ message_queue' = Drained(message_queue)
    /\ UNCHANGED <<connection, stop_event, proc, user_tickets,
                   polling_threads, mon, discovered_contacts, log_counters,
                   log_files, disk_ok, today, writer, ticket_msgs, sent,
                   inbound, to_add, hist, roster>>

\* folder.replace('_at_', '@'), line 363
RECURSIVE RestoreAt(_)
RestoreAt(s) ==
    IF s = <<>> THEN <<>>
    ELSE IF Len(s) >= 4 /\ SubSeq(s, 1, 4) = <<"_", "a", "t", "_">>
    THEN <<"@">> \o RestoreAt(SubSeq(s, 5, Len(s)))
    ELSE <<Head(s)>> \o RestoreAt(Tail(s))

\* roster entries: one that can be read and has no name, one whose getItem
\* raises (line 328)
CarolItem  == [jid |-> CarolJid, name |-> <<>>, subscription |-> "both",
               ok |-> TRUE]
BrokenItem == [jid |-> <<"d", "@", "x">>, name |-> <<>>,
               subscription |-> "both", ok |-> FALSE]

\* lines 312-334: the contacts the roster yields; the lists are sorted by
\* name before they are returned, their order is not followed here
RosterContacts(r) ==
    IF ~r.ok THEN {}
    ELSE {[jid |-> i.jid,
           name |-> IF i.name # <<>> THEN i.name ELSE SplitFirst(i.jid, "@"),
           subscription |-> i.subscription] : i \in {x \in r.items : x.ok}}

\* lines 339-344
DiscoveredContacts(discovered) ==
    {[jid |-> j, name |-> SplitFirst(j, "@"), subscription |-> "discovered"] :
        j \in discovered}

\* lines 348-368: the folders under log_dir/current_username
LogContacts(files) ==
    {[jid |-> RestoreAt(k[1]), name |-> SplitFirst(RestoreAt(k[1]), "@"),
      subscription |-> "from_logs"] : k \in DOMAIN files}

GetRosterMerged(conn, r, discovered, files) ==
    IF conn = "none" THEN {}
    ELSE RosterContacts(r) \cup DiscoveredContacts(discovered)
         \cup LogContacts(files)

\* what get_roster returns, lines 300-376
GetRosterReturns(conn, r, discovered, files) ==
    IF conn = "none" THEN {}
    ELSE IF RosterContacts(r) # {} THEN RosterContacts(r)
    ELSE IF discovered # {} THEN DiscoveredContacts(discovered)
    ELSE LogContacts(files)

\* a call of get_roster
GetRoster ==
    /\ front.pc = "idle"
    /\ front.calls > 0
    /\ front' = [front EXCEPT
                    !.contacts = GetRosterReturns(connection, roster,
                                     discovered_contacts, log_files),
                    !.calls = @ - 1, !.last = "get_roster"]
    /\ UNCHANGED <<connection, stop_event, proc, user_tickets,
                   polling_threads, mon, discovered_contacts, message_queue,
                   log_counters, log_files, disk_ok, today, writer,
                   ticket_msgs, sent, inbound, to_add, hist, roster>>

\* the front end sends a message (src/streamlit_app.py, line 69)
FrontSend ==
    /\ front.pc = "idle"
    /\ front.calls > 0
    /\ \E to_jid \in Senders, body \in FrontBodies, transport_ok \in BOOLEAN :
        LET r == SendMessage(connection, transport_ok, log_counters,
                             log_files, disk_ok, sent, to_jid, body, FALSE,
                             today)
        IN  /\ front' = [front EXCEPT !.error = r.raised, !.calls = @ - 1,
                                      !.last = "send_message"]
            /\ sent' = r.sent
            /\ log_counters' = r.counters
            /\ log_files' = r.files
    /\ UNCHANGED <<connection, stop_event, proc, user_tickets,
                   polling_threads, mon, discovered_contacts, message_queue,
                   disk_ok, today, writer, ticket_msgs, inbound, to_add,
                   hist, roster>>

SendTicketResponseNotifiesFirst(status, conn, transport_ok, counters, files, ok, out, to_jid, body, date) ==
    LET r == IF to_jid # <<>> /\ conn # "none"
             THEN SendMessage(conn, transport_ok, counters, files, ok, out,
                              to_jid, body, TRUE, date)
             ELSE [raised |-> "", sent |-> out, counters |-> counters,
                   files |-> files]
    IN  [result |-> status = "200" /\ r.raised = "", sent |-> r.sent,
         counters |-> r.counters, files |-> r.files]

\* send_ticket_response, lines 249-284, with the API configured: the POST
\* answers 200 or another status, or raises; on 200 the contact is told
\* over chat when an address was given and a connection exists; whatever is
\* raised, by the POST or by send_message, is caught and False returned
SendTicketResponse(status, conn, transport_ok, counters, files, ok, out, to_jid, body, date) ==
    IF status = "200"
    THEN LET r == IF to_jid # <<>> /\ conn # "none"
                  THEN SendMessage(conn, transport_ok, counters, files, ok,
                                   out, to_jid, body, TRUE, date)
                  ELSE [raised |-> "", sent |-> out, counters |-> counters,
                        files |-> files]
         IN  [result |-> r.raised = "", sent |-> r.sent,
              counters |-> r.counters, files |-> r.files]
    ELSE [result |-> FALSE, sent |-> out, counters |-> counters,
          files |-> files]

\* how the backend answers POST /tickets/{id}/respond (line 268): 200,
\* another status, or no answer (the request raises)
RespondStatus == {"200", "500", "error"}

\* the front end answers a ticket, with or without an address to notify
FrontRespond ==
    /\ front.pc = "idle"
    /\ front.calls > 0
    /\ \E status \in RespondStatus, to_jid \in Senders \cup {<<>>},
          body \in FrontBodies, transport_ok \in BOOLEAN :
        LET r == SendTicketResponse(status, connection, transport_ok,
                                    log_counters, log_files, disk_ok, sent,
                                    to_jid, body, today)
        IN  /\ front' = [front EXCEPT !.status = status,
                                      !.result = r.result,
                                      !.calls = @ - 1,
                                      !.last = "send_ticket_response"]
            /\ sent' = r.sent
            /\ log_counters' = r.counters
            /\ log_files' = r.files
    /\ UNCHANGED <<connection, stop_event, proc, user_tickets,
                   polling_threads, mon, discovered_contacts, message_queue,
                   disk_ok, today, writer, ticket_msgs, inbound, to_add,
                   hist, roster>>

\* the account's roster and the log directory as an earlier run left them
FrontRosters ==
    {[ok |-> FALSE, items |-> {}],
     [ok |-> TRUE, items |-> {CarolItem, BrokenItem}]}

FrontLogs ==
    {<<>>, [k \in {<<PersonFolder(BareJid(BobJid)), 1, 1>>} |-> <<OldLine>>]}

FrontStanzas == [i \in 1..FrontInbound |->
                    IF i % 2 = 1 THEN AliceJid ELSE BobJid]

InitFront ==
    /\ connection = "none"
    /\ stop_event = FALSE
    /\ proc = [p \in ProcIds |-> IdleProc]
    /\ user_tickets = <<>>
    /\ polling_threads = <<>>
    /\ mon = [m \in MonIds |-> IdleMon]
    /\ discovered_contacts = {}
    /\ message_queue = <<>>
    /\ log_counters = <<>>
    /\ log_files \in FrontLogs
    /\ disk_ok = TRUE
    /\ today = 1
    /\ writer = <<>>
    /\ ticket_msgs = [t \in BackendTickets |-> <<>>]
    /\ sent = <<>>
    /\ inbound = FrontStanzas
    /\ to_add = 0
    /\ hist = [m \in MonIds |-> IdleHist]
    /\ roster \in FrontRosters
    /\ front = [IdleFront EXCEPT !.calls = FrontCalls]

\* the receive thread and the front end; a monitor that was started is not
\* followed further
NextFront ==
    \/ Connect
    \/ Disconnect
    \/ \E p \in Procs : ProcessLoopExit(p)
    \/ \E p \in Procs : Receive(p)
    \/ \E p \in Procs : Presence(p)
    \/ \E p \in Procs : PostReturn(p)
    \/ \E p \in Procs : StartMonitor(p)
    \/ \E p \in Procs : RegisterMonitor(p)
    \/ GetMessagesBegin
    \/ GetMessagesStep
    \/ GetRoster
    \/ FrontSend

SpecFront == InitFront /\ [][NextFront]_vars

(* ====================== claims: tickets and monitors =================== *)
Range(f) == {f[i] : i \in DOMAIN f}

PollingFor(bare_jid) == {m \in Mons : IsPolling(m) /\ mon[m].jid = bare_jid}

\* C1: at most one monitor is polling for a bare contact address, whatever
\* the interleaving of handlers and monitors
C1_OneMonitorPerContact ==
    \A m \in Mons : IsPolling(m) => Cardinality(PollingFor(mon[m].jid)) <= 1

\* C2: an acknowledgement with a ticket id that arrives while a monitor of
\* the contact is polling does not lead the handler to create a ticket and
\* a monitor, and the tracked ticket stays as it is
C2_ConflictWhileMonitored ==
    [][\A p \in Procs :
        (/\ proc[p].pc = "post"
         /\ PollingFor(BareJid(proc[p].sender)) # {})
        => (/\ proc'[p].pc # "create"
            /\ (proc'[p].pc = "loop" => user_tickets' = user_tickets))]_vars

\* C3: a monitor relays each eligible message of the fetched list exactly
\* once: never twice, and once the delta has been walked every eligible
\* message up to the count it has seen has been relayed
C3_RelayedExactlyOnce ==
    \A m \in Mons :
        /\ \A i, j \in DOMAIN hist[m].relayed :
               i # j => hist[m].relayed[i] # hist[m].relayed[j]
        /\ mon[m].pc \in {"sleep", "loop"} =>
               \A k \in 1..hist[m].seen :
                   Eligible(ticket_msgs[mon[m].ticket_id][k])
                       => k \in Range(hist[m].relayed)

C5_NoRetryAfter404 ==
    \A m \in Mons : hist[m].got404 => ~IsPolling(m) /\ ~hist[m].reqAfter404

C7_TerminalStatusRecorded ==
    \A m \in Mons :
        (mon[m].pc = "sleep" /\ hist[m].sawTerminal)
        => /\ mon[m].jid \in DOMAIN user_tickets
           /\ user_tickets[mon[m].jid].status \in TerminalStatus

\* C8: when a handler ends after an acknowledgement that named a ticket
\* while no ticket was tracked for the sender or no monitor of the sender
\* was alive, a ticket with the sender's full address is tracked and a
\* monitor for the sender is polling
C8_AckStartsMonitor ==
    [][\A p \in Procs :
        (/\ proc[p].pc \in {"post", "register"}
         /\ proc'[p].pc = "loop"
         /\ proc'[p].expect)
        => LET bare_jid == BareJid(proc[p].sender)
           IN  /\ bare_jid \in DOMAIN user_tickets'
               /\ user_tickets'[bare_jid].full_jid = proc[p].sender
               /\ \E m \in Mons : /\ mon'[m].jid = bare_jid
                                  /\ mon'[m].pc \in {"loop", "fetch",
                                                     "relay", "sleep"}]_vars

\* the step of monitor m hands a chat message to the transport
Relays(m) == hist'[m].relayed # hist[m].relayed

AiBotLine(body) ==
    [date |-> today, label |-> <<"A", "I", " ", "B", "o", "t">>, body |-> body]

\* the step appends the line to a segment of the contact's log
AppendsToLogOf(bare_jid, line) ==
    \E k \in DOMAIN log_files' :
        /\ k[1] = PersonFolder(bare_jid)
        /\ log_files'[k] =
              (IF k \in DOMAIN log_files THEN log_files[k] ELSE <<>>)
              \o <<line>>

\* C9 as claimed: a relayed message is sent to the full address stored in
\* the ticket
C9_SentToFullAddress ==
    [][\A m \in Mons :
        (Relays(m) /\ mon[m].jid \in DOMAIN user_tickets)
        => sent'[Len(sent')].to = user_tickets[mon[m].jid].full_jid]_vars

\* C9 as amended: a relayed message is sent to the bare address of the
\* contact, a line labelled "AI Bot" with the sent body is appended to the
\* contact's log unless the write fails, and a fetch that returns more
\* messages than were seen sets last_message_count to the fetched total
C9_RelayToBareAddress ==
    [][\A m \in Mons :
        /\ Relays(m) =>
            LET body == ConvertMarkdownLinks(Head(mon[m].new_messages).content)
            IN  /\ sent' = Append(sent, [to |-> mon[m].jid, body |-> body])
                /\ IndexOfFrom(mon[m].jid, "/", 1) = 0
                /\ (mon[m].jid \in DOMAIN user_tickets =>
                        mon[m].jid = BareJid(user_tickets[mon[m].jid].full_jid))
                /\ (disk_ok => AppendsToLogOf(mon[m].jid, AiBotLine(body)))
        /\ (mon[m].pc = "fetch" /\ mon'[m].pc = "relay") =>
                user_tickets'[mon[m].jid].last_message_count
                    = Len(ticket_msgs[mon[m].ticket_id])]_vars

C9_Witness ==
    /\ sent # <<>>
    /\ sent[Len(sent)] = [to |-> BareJid(AliceJid), body |-> BodyHi]
    /\ \E k \in DOMAIN log_files :
          \E i \in DOMAIN log_files[k] : log_files[k][i] = AiBotLine(BodyHi)
    /\ BareJid(AliceJid) \in DOMAIN user_tickets
    /\ user_tickets[BareJid(AliceJid)].last_message_count = 2

(* =========================== claims: log store ========================= *)
\* the step of writer t appends a sent line that carries the closing phrase
WritesClosing(t) ==
    /\ writer[t].pc = "write"
    /\ writer'[t].pc = "idle"
    /\ disk_ok
    /\ Rotates(writer[t].msg_type, writer[t].body)

\* C10: a sent line with the closing phrase is appended to the segment of
\* the counter in effect for the pair and the day, the counter then becomes
\* that counter plus one, naming a segment that does not exist yet, and no
\* line already written is moved or changed
C10_LazyRotation ==
    [][\A t \in DOMAIN writer :
        WritesClosing(t) =>
            LET w      == writer[t]
                folder == PersonFolder(ConversationWith(w.sender, w.recipient,
                                                        w.msg_type))
                key    == CounterKey(folder)
                n      == log_counters[key][w.date_str]
                seg    == <<folder, w.date_str, n>>
            IN  /\ seg \in DOMAIN log_files'
                /\ Len(log_files'[seg]) > 0
                /\ log_files'[seg][Len(log_files'[seg])].body = w.body
                /\ log_counters'[key][w.date_str] = n + 1
                /\ <<folder, w.date_str, n + 1>> \notin DOMAIN log_files'
                /\ \A k \in DOMAIN log_files :
                      /\ k \in DOMAIN log_files'
                      /\ SubSeq(log_files'[k], 1, Len(log_files[k]))
                            = log_files[k]
                      /\ (k # seg => log_files'[k] = log_files[k])]_vars

(* ====================== claims: log store, restarts ==================== *)
\* a sent line ("Me" or "AI Bot") that carries the closing phrase
IsClosingLine(line) ==
    /\ line.label \in {SpeakerLabel("sent", OwnJid), SpeakerLabel("ai_sent", OwnJid)}
    /\ HasClosingPhrase(line.body)

\* C11: in no segment is a line found after a sent line with the closing
\* phrase, restarts of the process included
C11_NoAppendAfterClosing ==
    \A k \in DOMAIN log_files :
        \A i \in 1..(Len(log_files[k]) - 1) : ~IsClosingLine(log_files[k][i])

\* the folders and dates for which counters holds a counter
CounterEntries(counters) ==
    {fd \in {<<PersonFolder(BareJid(a)), d>> : a \in {AliceJid, BobJid},
                                               d \in 1..(MaxDay + 1)} :
        /\ CounterKey(fd[1]) \in DOMAIN counters
        /\ fd[2] \in DOMAIN counters[CounterKey(fd[1])]}

CountersInEffect == CounterEntries(log_counters)

\* C12: the counter of a pair and date never decreases from one step to the
\* next, and when the process restarts the counter that a scan of the files
\* recovers is not lower than the counter that was in effect
C12_CounterNeverDecreases ==
    [][\A fd \in CountersInEffect :
        LET n == log_counters[CounterKey(fd[1])][fd[2]]
        IN  IF log_counters' = <<>>
            THEN ScanCounter(log_files', fd[1], fd[2]) >= n
            ELSE /\ CounterKey(fd[1]) \in DOMAIN log_counters'
                 /\ fd[2] \in DOMAIN log_counters'[CounterKey(fd[1])]
                 /\ log_counters'[CounterKey(fd[1])][fd[2]] >= n]_vars

(* ===================== claims: log store, concurrency ================== *)
\* the counter now in effect for the pair and date thread t is writing for
CounterOf(t) ==
    log_counters[CounterKey(PersonFolder(ConversationWith(
        writer[t].sender, writer[t].recipient, writer[t].msg_type)))]
                [writer[t].date_str]

\* C13: appends for one pair are serialised: while a thread is between its
\* counter lookup and its write no other thread is, and the counter it
\* looked up is still the counter in effect
C13_AppendsSerialized ==
    \A t \in DOMAIN writer :
        writer[t].pc = "write" =>
            /\ \A u \in DOMAIN writer \ {t} : writer[u].pc # "write"
            /\ writer[t].counter = CounterOf(t)

(* ====================== claims: log store, reading ===================== *)
\* the lines of a text: the pieces between line breaks
RECURSIVE SplitLines(_)
SplitLines(text) ==
    IF text = <<>> THEN <<>>
    ELSE LET i == IndexOfFrom(text, "\n", 1)
         IN  IF i = 0 THEN <<text>>
             ELSE <<SubSeq(text, 1, i - 1)>>
                  \o SplitLines(SubSeq(text, i + 1, Len(text)))

\* "(YYYY-MM-DD HH:MM:SS) <label>: <body>"
HasLineForm(l) ==
    /\ Len(l) >= 23
    /\ l[1] = "(" /\ l[6] = "-" /\ l[9] = "-" /\ l[12] = " "
    /\ l[15] = ":" /\ l[18] = ":" /\ l[21] = ")" /\ l[22] = " "
    /\ Contains(SubSeq(l, 23, Len(l)), <<":", " ">>)

\* C14: reading a segment yields as many lines as were appended to it, in
\* the order of the appends, each the formatted line of its append and of
\* the documented form
C14_RoundTrip ==
    \A k \in DOMAIN log_files :
        LET read == SplitLines(ReadSegment(log_files, k))
        IN  /\ Len(read) = Len(log_files[k])
            /\ \A i \in 1..Len(read) :
                  /\ read[i] \o <<"\n">> = FormatLine(log_files[k][i])
                  /\ HasLineForm(read[i])

(* ======================== claims: error handling ======================= *)
\* the line _message_handler logs for a stanza
ReceivedLine(sender, body) == [date |-> today, label |-> sender, body |-> body]

\* the line is in a segment of the contact's log
InLogOf(bare_jid, line) ==
    \E k \in DOMAIN log_files :
        /\ k[1] = PersonFolder(bare_jid)
        /\ \E i \in DOMAIN log_files[k] : log_files[k][i] = line

\* C15: when the backend call for an inbound message fails, the handler
\* returns to the receive loop without taking another stanza or calling the
\* backend again, the message is put on the event queue, the log keeps the
\* line written for it, and no ticket, monitor or registration is created
C15_BackendFailureContained ==
    [][\A p \in Procs :
        (proc[p].pc = "post" /\ proc'[p].response = "failed") =>
            /\ proc'[p].pc = "loop"
            /\ inbound' = inbound
            /\ connection' = connection /\ stop_event' = stop_event
            /\ message_queue' =
                  Append(message_queue, [from |-> proc[p].sender,
                                         body |-> proc[p].body,
                                         type |-> "chat"])
            /\ log_files' = log_files /\ log_counters' = log_counters
            /\ (disk_ok => InLogOf(BareJid(proc[p].sender),
                                   ReceivedLine(proc[p].sender, proc[p].body)))
            /\ user_tickets' = user_tickets
            /\ polling_threads' = polling_threads
            /\ mon' = mon]_vars

C15_Witness ==
    /\ \E p \in Procs : proc[p].pc = "loop" /\ proc[p].response = "failed"
    /\ message_queue = <<[from |-> AliceJid, body |-> BodyHi, type |-> "chat"]>>
    /\ disk_ok
    /\ InLogOf(BareJid(AliceJid), ReceivedLine(AliceJid, BodyHi))
    /\ user_tickets = <<>>
    /\ polling_threads = <<>>
    /\ \A m \in Mons : mon[m].pc = "unborn"

\* C16: while the log directory is not writable no step changes a file or
\* increments a counter (a counter is at most initialised from the scan);
\* the handler of an inbound message still goes on to the backend call and
\* ends by queueing the message, and a relay still hands the message to the
\* transport and goes on with the delta, unless the transport itself refuses
\* the message
C16_FailedWriteSwallowed ==
    [][~disk_ok =>
        /\ log_files' = log_files
        /\ \/ log_counters' = log_counters
           \/ \A fd \in CounterEntries(log_counters') :
                 log_counters'[CounterKey(fd[1])][fd[2]] =
                     IF fd \in CountersInEffect
                     THEN log_counters[CounterKey(fd[1])][fd[2]]
                     ELSE ScanCounter(log_files, fd[1], fd[2])
        /\ \A p \in Procs :
              /\ (proc[p].pc = "loop" /\ proc'[p].body # <<>>)
                    => proc'[p].pc = "post"
              /\ (proc[p].pc \in {"post", "register"} /\ proc'[p].pc = "loop")
                    => message_queue' =
                          Append(message_queue, [from |-> proc[p].sender,
                                                 body |-> proc[p].body,
                                                 type |-> "chat"])
        /\ \A m \in Mons :
              (/\ mon[m].pc = "relay"
               /\ mon'[m] # mon[m]
               /\ Eligible(Head(mon[m].new_messages))
               /\ connection # "none"
               /\ mon[m].jid \in DOMAIN user_tickets)
              => \/ /\ sent' = Append(sent,
                           [to |-> mon[m].jid,
                            body |-> ConvertMarkdownLinks(
                                         Head(mon[m].new_messages).content)])
                    /\ mon'[m].errors = mon[m].errors
                    /\ mon'[m].pc \in {"relay", "sleep"}
                 \/ /\ sent' = sent
                    /\ mon'[m].errors = mon[m].errors + 1]_vars

C16_Witness ==
    /\ ~disk_ok
    /\ log_files = <<>>
    /\ message_queue # <<>>
    /\ sent # <<>>
    /\ sent[Len(sent)].body = BodyClosing
    /\ <<PersonFolder(BareJid(AliceJid)), today>> \in CountersInEffect
    /\ log_counters[CounterKey(PersonFolder(BareJid(AliceJid)))][today] = 1

(* ====================== claims: receive path, shutdown ================= *)
\* C17: while the backend call for one message is in flight, a further
\* stanza that the transport has ready can be received and handled
C17_ReceiveWhileSubmitting ==
    (/\ \E p \in Procs : proc[p].pc = "post"
     /\ inbound # <<>>
     /\ connection = "up"
     /\ ~stop_event)
    => ENABLED (\E q \in Procs : Receive(q))

\* C18: while the shutdown flag stays set no monitor issues a new poll and
\* no receive thread takes a new stanza, and a monitor that is asleep looks
\* at the flag again within one polling interval
C18_ShutdownObservedInTime ==
    /\ [][(stop_event /\ stop_event') =>
            /\ \A m \in Mons : mon'[m].pc = "fetch" => mon[m].pc = "fetch"
            /\ \A p \in Procs : proc'[p].pc = "post" => proc[p].pc = "post"]_vars
    /\ [](\A m \in Mons :
            (stop_event /\ mon[m].pc = "sleep")
                => mon[m].sleep <= poll_interval)

(* ========================= claims: two contacts ======================== *)
\* the step in which monitor m leaves its polling loop
Terminates(m) == IsPolling(m) /\ mon'[m].pc = "exit"

\* C19: the step in which a contact's monitor terminates changes no other
\* contact's ticket, no other monitor, no registration, no log or counter,
\* and nothing of the receive threads, the connection, the flag, the
\* pending stanzas or the event queue
C19_TerminationIsLocal ==
    [][\A m \in Mons :
        Terminates(m) =>
            /\ \A jid \in (DOMAIN user_tickets \cup DOMAIN user_tickets')
                           \ {mon[m].jid} :
                  /\ jid \in DOMAIN user_tickets
                  /\ jid \in DOMAIN user_tickets'
                  /\ user_tickets'[jid] = user_tickets[jid]
            /\ \A n \in Mons \ {m} : mon'[n] = mon[n]
            /\ polling_threads' = polling_threads
            /\ log_counters' = log_counters /\ log_files' = log_files
            /\ proc' = proc
            /\ connection' = connection /\ stop_event' = stop_event
            /\ inbound' = inbound /\ message_queue' = message_queue
            /\ discovered_contacts' = discovered_contacts]_vars

C19_Witness ==
    \E m, n \in Mons :
        /\ mon[m].jid = BareJid(AliceJid)
        /\ mon[m].pc = "dead"
        /\ hist[m].reason = "error-exhausted"
        /\ BareJid(AliceJid) \notin DOMAIN user_tickets
        /\ mon[n].jid = BareJid(BobJid)
        /\ IsPolling(n)
        /\ mon[n].errors > 0
        /\ BareJid(BobJid) \in DOMAIN user_tickets

\* an address without a resource separator
IsBare(jid) == IndexOfFrom(jid, "/", 1) = 0

\* bare is what stands in full before its first separator
IsBareOf(bare, full) ==
    /\ IsBare(bare)
    /\ Len(bare) < Len(full)
    /\ SubSeq(full, 1, Len(bare)) = bare
    /\ full[Len(bare) + 1] = "/"

\* the folders of the contacts that write
ContactFolders == {PersonFolder(BareJid(a)) : a \in {AliceJid, BobJid}}

\* C20: the address derived from the sender of a stanza is the text before
\* its first separator and deriving it again changes nothing; the keys of the
\* tickets, of the registered and running monitors, of the discovered
\* contacts and of the logs are such bare addresses
C20_BareAddressKeys ==
    /\ \A p \in Procs :
          proc[p].sender # <<>> =>
              /\ IsBareOf(BareJid(proc[p].sender), proc[p].sender)
              /\ BareJid(BareJid(proc[p].sender)) = BareJid(proc[p].sender)
    /\ \A jid \in DOMAIN user_tickets :
          /\ IsBareOf(jid, user_tickets[jid].full_jid)
          /\ BareJid(jid) = jid
    /\ \A jid \in DOMAIN polling_threads : IsBare(jid) /\ BareJid(jid) = jid
    /\ \A m \in Mons : IsAlive(m) => IsBare(mon[m].jid)
    /\ \A jid \in discovered_contacts : IsBare(jid)
    /\ \A k \in DOMAIN log_files : k[1] \in ContactFolders
    /\ \A key \in DOMAIN log_counters :
          key \in {CounterKey(folder) : folder \in ContactFolders}

C20_Witness ==
    LET bob == <<"b", "@", "x">>
    IN  /\ bob \in DOMAIN user_tickets
        /\ user_tickets[bob].full_jid = BobJid
        /\ bob \in DOMAIN polling_threads
        /\ IsAlive(polling_threads[bob])
        /\ mon[polling_threads[bob]].jid = bob
        /\ bob \in discovered_contacts
        /\ \E k \in DOMAIN log_files : k[1] = <<"b", "_", "a", "t", "_", "x">>

(* ------------------------------- C21 ---------------------------------- *)
\* C21: a stanza with an empty or absent body is skipped entirely: the step
\* that takes it from the transport leaves the discovered contacts, the
\* conversation log and its counters, the ticket registry, the monitor
\* table, the monitors and the event queue as they were, and starts no
\* backend call.
C21_EmptyBodySkipped ==
    [][(inbound' # inbound /\ \A p \in Procs : proc'[p].body = <<>>)
        => /\ UNCHANGED <<discovered_contacts, log_files, log_counters,
                          user_tickets, polling_threads, mon, message_queue,
                          sent>>
           /\ \A p \in Procs : proc'[p].pc = proc[p].pc]_vars

\* the only stanza was empty and was taken: nothing is recorded anywhere
C21_Witness ==
    /\ inbound = <<>>
    /\ connection = "up"
    /\ \E p \in Procs : proc[p].pc = "loop"
    /\ discovered_contacts = {}
    /\ log_files = <<>>
    /\ message_queue = <<>>
    /\ user_tickets = <<>>

(* ------------------------------- C22 ---------------------------------- *)
RECURSIVE Flatten(_)
Flatten(batches) ==
    IF batches = <<>> THEN <<>>
    ELSE Head(batches) \o Flatten(Tail(batches))

\* the events in the order of their arrival: those the calls of get_messages
\* returned, those the call in progress has collected, those still queued
Events == Flatten(front.returned) \o front.messages \o message_queue

\* C22: every queued event is returned by exactly one get_messages call and
\* in arrival order, also while events are enqueued during a call: no step
\* removes, repeats or reorders an event of the sequence made of the
\* returned batches, the batch being collected and the queue; a step can
\* only add one event at its end.
C22_EachEventReturnedOnce ==
    [][\/ Events' = Events
       \/ /\ Len(Events') = Len(Events) + 1
          /\ SubSeq(Events', 1, Len(Events)) = Events
          /\ front' = front]_vars

\* two calls returned one event each, the first arrival first
C22_Witness ==
    /\ Len(front.returned) = 2
    /\ front.pc = "idle"
    /\ \A i \in 1..2 : Len(front.returned[i]) = 1
    /\ front.returned[1][1].from = AliceJid
    /\ front.returned[2][1].from = BobJid

(* ------------------------------- C23 ---------------------------------- *)
\* a step in which get_roster returns
GetRosterStep == front'.calls # front.calls /\ front'.last = "get_roster"

\* the contacts are those of the first tier that has any: the roster entries
\* that can be read, else the discovered addresses, else the addresses of
\* the log folders; every contact carries the mark of that one tier
FromOneTier(contacts) ==
    LET readable == IF connection # "none" /\ roster.ok
                    THEN {i \in roster.items : i.ok} ELSE {}
        jids     == {c.jid : c \in contacts}
        marks    == {c.subscription : c \in contacts}
    IN  IF readable # {}
        THEN /\ jids = {i.jid : i \in readable}
             /\ marks \cap {"discovered", "from_logs"} = {}
        ELSE IF discovered_contacts # {}
        THEN jids = discovered_contacts /\ marks = {"discovered"}
        ELSE /\ jids = {RestoreAt(k[1]) : k \in DOMAIN log_files}
             /\ marks \subseteq {"from_logs"}

\* C23 as stated: get_roster returns the roster when it yields at least one
\* contact, otherwise the discovered set when non-empty, otherwise the
\* contacts derived from the log directories, never a mix of tiers.
C23_TiersAlways ==
    [][GetRosterStep => FromOneTier(front'.contacts)]_vars

\* C23 (amended): that holds while the client is connected; without a
\* connection get_roster returns the empty list whatever the tiers hold.
C23_TiersWhileConnected ==
    [][GetRosterStep =>
        IF connection = "none" THEN front'.contacts = {}
        ELSE FromOneTier(front'.contacts)]_vars

\* get_roster returned the discovered contacts, the roster being out of
\* reach, although log folders of another contact existed
C23_Witness ==
    /\ front.last = "get_roster"
    /\ connection = "up"
    /\ ~roster.ok
    /\ PersonFolder(BareJid(BobJid)) \in {k[1] : k \in DOMAIN log_files}
    /\ BareJid(BobJid) \notin discovered_contacts
    /\ front.contacts # {}
    /\ \A c \in front.contacts :
          c.subscription = "discovered" /\ c.jid = BareJid(AliceJid)

(* ------------------------------- C24 ---------------------------------- *)
\* the message a monitor in its walk is looking at
Current(m) == Head(mon[m].new_messages)

\* a step of monitor m over a message written by the customer or without
\* content
SkipStep(m) ==
    /\ mon[m].pc = "relay"
    /\ mon'[m] # mon[m]
    /\ Current(m).is_customer \/ Current(m).content = <<>>

C25_EveryReplyRelayed ==
    (to_add = 0 /\ \E m \in Mons : IsPolling(m))
        ~> (Len(sent) = Len(ticket_msgs[1]))

(* ------------------------------- C26 ---------------------------------- *)
\* the step in which thread t leaves _log_message
WriterStep(t) == writer[t].pc = "write" /\ writer'[t].pc = "idle"

\* the line of thread t is a "Me" or "AI Bot" line that carries the phrase
\* "closing ticket" in whatever case
Qualifies(t) ==
    /\ writer[t].msg_type \in {"sent", "ai_sent"}
    /\ Contains(Lower(writer[t].body), ClosingPhrase)

\* the folder and date thread t writes for
EntryOf(t) ==
    <<PersonFolder(ConversationWith(writer[t].sender, writer[t].recipient,
                                    writer[t].msg_type)),
      writer[t].date_str>>

BeginStep(t) == writer[t].pc = "idle" /\ writer'[t].pc = "write"

\* the folder the call that thread t has just entered writes to
FolderEntered(t) ==
    PersonFolder(ConversationWith(writer'[t].sender, writer'[t].recipient,
                                  writer'[t].msg_type))

SleepStep(m) == mon[m].pc \in {"fetch", "relay"} /\ mon'[m].pc = "sleep"

\* C28: a monitor goes to sleep at the end of an iteration only while the
\* shutdown flag is clear (with the flag set it leaves without sleeping), and
\* then sleeps the poll period after a fetch that succeeded and twice the
\* poll period after a fetch that failed.
C28_SleepAfterIteration ==
    [][\A m \in Mons :
        SleepStep(m) =>
            /\ ~stop_event
            /\ IF mon[m].pc = "fetch" /\ mon'[m].errors = mon[m].errors + 1
               THEN mon'[m].sleep = 2 * poll_interval
               ELSE mon'[m].errors = mon[m].errors + 1
                    \/ mon'[m].sleep = poll_interval]_vars

(* ------------------------------- C29 ---------------------------------- *)
\* monitor m starts an iteration while the registry holds no ticket for its
\* contact
NoTicketStep(m) ==
    /\ mon[m].pc = "loop"
    /\ mon'[m] # mon[m]
    /\ mon[m].jid \notin DOMAIN user_tickets

\* C29: a monitor that finds no ticket for its contact at the start of an
\* iteration terminates at once: it issues no backend request and neither
\* creates nor changes an entry of the ticket registry or the monitor table.
C29_NoTicketEndsMonitor ==
    [][\A m \in Mons :
        NoTicketStep(m) =>
            /\ mon'[m].pc = "exit"
            /\ hist'[m].reqrun = hist[m].reqrun
            /\ UNCHANGED <<user_tickets, polling_threads, sent>>]_vars

\* a monitor ended because the ticket of its contact was gone
C29_Witness ==
    \E m \in Mons :
        /\ mon[m].pc = "dead"
        /\ hist[m].reason = "no-ticket"
        /\ mon[m].jid \notin DOMAIN user_tickets

(* ------------------------------- C30 ---------------------------------- *)
\* a step in which a send_message call of the front end ends
FrontSendStep == front'.calls # front.calls /\ front'.last = "send_message"

\* the lines the step appends to the log, with the folder they go to
Appended ==
    {<<k[1], log_files'[k][Len(log_files'[k])]>> :
        k \in {x \in DOMAIN log_files' :
                 x \notin DOMAIN log_files \/ log_files'[x] # log_files[x]}}

\* the text of BodyLink once its link is written out
LinkWrittenOut == <<"t", ":", " ", "u">>

\* C30: send_message appends a "Me" or "AI Bot" line only after the message
\* was handed to the transport: a step that appends such a line hands one
\* message to the transport, to the contact of the line's folder and with
\* exactly the body of the line, which is the body after link conversion.
\* A call made without a connection fails with ConnectionError; a call that
\* raises, for that reason or because the transport's send raised, appends
\* no line and leaves the rotation counters as they were.
C30_LoggedOnlyAfterSend ==
    [][/\ \A a \in Appended :
            a[2].label \in {<<"M", "e">>, <<"A", "I", " ", "B", "o", "t">>}
            => /\ Len(sent') = Len(sent) + 1
               /\ SubSeq(sent', 1, Len(sent)) = sent
               /\ sent'[Len(sent')].body = a[2].body
               /\ PersonFolder(BareJid(sent'[Len(sent')].to)) = a[1]
               /\ a[2].body \in {LinkWrittenOut, BodyClosing, BodyHi}
       /\ FrontSendStep =>
            /\ connection = "none" => front'.error = "ConnectionError"
            /\ front'.error # "" =>
                  UNCHANGED <<sent, log_files, log_counters>>
            /\ front'.error = "" =>
                  /\ Len(sent') = Len(sent) + 1
                  /\ Cardinality(Appended) = 1]_vars

\* a message with a link was sent and logged with the link written out; the
\* send that followed raised in the transport and left no line
C30_Witness ==
    LET folder == PersonFolder(BareJid(AliceJid))
    IN  /\ front.error = "send"
        /\ sent = <<[to |-> AliceJid, body |-> LinkWrittenOut]>>
        /\ <<folder, 1, 1>> \in DOMAIN log_files
        /\ log_files[<<folder, 1, 1>>]
              = <<[date |-> 1, label |-> <<"M", "e">>,
                   body |-> LinkWrittenOut]>>

(* ------------------------------- C31 ---------------------------------- *)
\* C31: between two polls the count of messages seen covers only messages
\* the monitor has walked (relayed or skipped): when a relay raised, the
\* failing message and the rest of the delta are still ahead of the count
\* and a later poll returns them again
C31_CountCoversOnlyWalked ==
    \A m \in Mons :
        (/\ mon[m].pc \in {"sleep", "loop"}
         /\ hist[m].anyOk
         /\ mon[m].jid \in DOMAIN user_tickets)
        => user_tickets[mon[m].jid].last_message_count < hist[m].base

(* ------------------------------- C32 ---------------------------------- *)
\* C32: once a monitor has terminated, whatever the reason, no ticket is
\* tracked for its contact unless another monitor of that contact is alive
C32_TrackedOnlyWhileMonitored ==
    \A m \in Mons :
        (/\ mon[m].pc = "dead"
         /\ ~HasLiveMonitor(mon[m].jid)
         /\ \A p \in Procs : proc[p].pc \notin {"create", "register"})
        => mon[m].jid \notin DOMAIN user_tickets

(* ------------------------------- C33 ---------------------------------- *)
\* the same contact writes again after its monitor has ended: one receive
\* thread, a second monitor thread for the restart, agent replies on the
\* ticket
AgainMsgs == 1

InitAgain == InitWith(ProcIds, RaceMonIds, {TwinStanzas}, AgainMsgs, {TRUE})

NextAgain ==
    \/ Connect
    \/ Disconnect
    \/ \E p \in Procs : ProcessLoopExit(p)
    \/ \E p \in Procs : Receive(p)
    \/ \E p \in Procs : PostReturn(p)
    \/ \E p \in Procs : StartMonitor(p)
    \/ \E p \in Procs : RegisterMonitor(p)
    \/ \E m \in Mons : MonitorLoop(m)
    \/ \E m \in Mons : MonitorFetch(m)
    \/ \E m \in Mons : MonitorRelay(m)
    \/ \E m \in Mons : MonitorWake(m)
    \/ \E m \in Mons : MonitorExit(m)
    \/ BackendAddOf({AgentReply})

SpecAgain == InitAgain /\ [][NextAgain]_vars

\* C33: no message of a ticket is relayed to its contact twice, neither
\* by one monitor nor by a monitor started later for the same contact
C33_NeverRelayedTwice ==
    \A m, n \in Mons :
        \A i \in DOMAIN hist[m].relayed, j \in DOMAIN hist[n].relayed :
            (mon[m].jid = mon[n].jid /\ (m # n \/ i # j))
            => hist[m].relayed[i] # hist[n].relayed[j]

(* ------------------------------- C34 ---------------------------------- *)
\* the same contact writes twice and the backend may acknowledge the second
\* message with a ticket it has opened since
LaterInbound == 2

InitLater == InitWith(ProcIds, MonIds, {[i \in 1..LaterInbound |-> AliceJid]},
                      0, {TRUE})

NextLater ==
    \/ Connect
    \/ Disconnect
    \/ \E p \in Procs : ProcessLoopExit(p)
    \/ \E p \in Procs : Receive(p)
    \/ \E p \in Procs : PostReturnOf(p, BackendTickets)
    \/ \E p \in Procs : StartMonitor(p)
    \/ \E p \in Procs : RegisterMonitor(p)
    \/ \E m \in Mons : MonitorLoop(m)
    \/ \E m \in Mons : MonitorFetch(m)
    \/ \E m \in Mons : MonitorWake(m)
    \/ \E m \in Mons : MonitorExit(m)

SpecLater == InitLater /\ [][NextLater]_vars

\* C34: when a handler ends after an acknowledgement that named ticket T,
\* a ticket tracked for the sender is T
C34_TrackedIsLatestAck ==
    [][\A p \in Procs :
        LET bare_jid == BareJid(proc[p].sender) IN
        (/\ proc[p].pc \in {"post", "register"}
         /\ proc'[p].pc = "loop"
         /\ proc'[p].acked # NoTicket
         /\ bare_jid \in DOMAIN user_tickets')
        => user_tickets'[bare_jid].ticket_id = proc'[p].acked]_vars

(* ------------------------------- C35 ---------------------------------- *)
\* the same contact writes twice while the receive thread of an earlier
\* connection is still running, and an agent replies on the ticket; every
\* poll is answered with the list
ResetMsgs == 1

InitReset == InitWith(RaceProcIds, RaceMonIds, {TwinStanzas}, ResetMsgs,
                      {TRUE})

NextReset ==
    \/ Connect
    \/ Disconnect
    \/ \E p \in Procs : ProcessLoopExit(p)
    \/ \E p \in Procs : Receive(p)
    \/ \E p \in Procs : PostReturn(p)
    \/ \E p \in Procs : StartMonitor(p)
    \/ \E p \in Procs : RegisterMonitor(p)
    \/ \E m \in Mons : MonitorLoop(m)
    \/ \E m \in Mons : MonitorFetchWith(m, {"200"})
    \/ \E m \in Mons : MonitorRelay(m)
    \/ \E m \in Mons : MonitorWake(m)
    \/ \E m \in Mons : MonitorExit(m)
    \/ BackendAddOf({AgentReply})

SpecReset == InitReset /\ [][NextReset]_vars

\* the largest list a monitor of the contact has been given
SeenBy(bare_jid) ==
    SetMax({0} \cup {hist[m].seen : m \in {n \in Mons : mon[n].jid = bare_jid}})

\* C35: while a monitor of a contact stays alive the count of messages seen
\* for the contact does not go down, and it is never more than the number
\* of messages a fetch has returned
C35_CountMonotoneAndBounded ==
    [][\A bare_jid \in DOMAIN user_tickets :
        /\ user_tickets[bare_jid].last_message_count <= SeenBy(bare_jid)
        /\ (/\ bare_jid \in DOMAIN user_tickets'
            /\ \E m \in Mons : /\ mon[m].jid = bare_jid
                               /\ IsPolling(m)
                               /\ mon'[m].jid = bare_jid
                               /\ IsPolling(m)')
           => user_tickets'[bare_jid].last_message_count
                  >= user_tickets[bare_jid].last_message_count]_vars

(* ------------------------------- C36 ---------------------------------- *)
\* C36: while the client is disconnected no inbound message is handled:
\* no ticket is stored, no monitor is started, no line is appended to a
\* log and no event is placed on the queue
C36_QuietWhileDisconnected ==
    [][(connection = "none" /\ connection' = "none")
        => /\ DOMAIN user_tickets' \subseteq DOMAIN user_tickets
           /\ \A m \in Mons : mon[m].pc = "unborn" => mon'[m].pc = "unborn"
           /\ log_files' = log_files
           /\ Len(message_queue') <= Len(message_queue)]_vars

(* ------------------------------- C37 ---------------------------------- *)
\* the front end answers tickets while the client connects and disconnects
RespondCalls == 3

InitRespond ==
    /\ connection = "none"
    /\ stop_event = FALSE
    /\ proc = [p \in ProcIds |-> IdleProc]
    /\ user_tickets = <<>>
    /\ polling_threads = <<>>
    /\ mon = [m \in MonIds |-> IdleMon]
    /\ discovered_contacts = {}
    /\ message_queue = <<>>
    /\ log_counters = <<>>
    /\ log_files = <<>>
    /\ disk_ok \in BOOLEAN
    /\ today = 1
    /\ writer = <<>>
    /\ ticket_msgs = [t \in BackendTickets |-> <<>>]
    /\ sent = <<>>
    /\ inbound = <<>>
    /\ to_add = 0
    /\ hist = [m \in MonIds |-> IdleHist]
    /\ roster = NoRoster
    /\ front = [IdleFront EXCEPT !.calls = RespondCalls]

NextRespond ==
    \/ Connect
    \/ Disconnect
    \/ \E p \in Procs : ProcessLoopExit(p)
    \/ FrontRespond

SpecRespond == InitRespond /\ [][NextRespond]_vars

RespondStep ==
    /\ front'.calls < front.calls
    /\ front'.last = "send_ticket_response"

\* C37: a send_ticket_response call returns True only if the backend
\* answered 200, and when it answered anything else or the request failed
\* the call returns False, sends no chat message and writes no log line
C37_NotifiesOnlyAfterAccepted ==
    [][RespondStep =>
        /\ front'.result => front'.status = "200"
        /\ front'.status # "200" =>
              /\ ~front'.result
              /\ sent' = sent
              /\ log_files' = log_files
              /\ log_counters' = log_counters]_vars

\* a response was accepted and relayed, and the next one was refused by the
\* backend while the client was connected
C37_Witness ==
    /\ front.last = "send_ticket_response"
    /\ front.calls = 0
    /\ front.status \in {"500", "error"}
    /\ ~front.result
    /\ connection = "up"
    /\ Len(sent) = 1
    /\ log_files # <<>>

====
